---- MODULE Spec2Model ----
(***************************************************************************)
(* A model of the swap-sphere matching engine: MatchingEngine               *)
(* (findMatches, calculateMatchScore, the directional semantic score),      *)
(* SemanticService (initialize, getEmbedding, cosineSimilarity,             *)
(* calculateSkillSimilarity, fallbackSimilarity), LanguageService and       *)
(* TrustService.                                                            *)
(*                                                                          *)
(* Numbers are exact rationals [n |-> numerator, d |-> denominator > 0] in  *)
(* lowest terms.  Strings are sequences of one-character strings, so that   *)
(* toLowerCase, trim, includes and split are computed, not assumed.         *)
(***************************************************************************)
EXTENDS Integers, Sequences, FiniteSets, TLC

\* ------------------------------------------------------------------------
\* Bounds of the model
\* ------------------------------------------------------------------------

\* Longest candidate list handed to findMatches in RankSpec.
MaxCandidates == 3

\* ------------------------------------------------------------------------
\* Exact arithmetic on the JavaScript numbers the engine computes with
\* ------------------------------------------------------------------------

\* Call by value: the arguments are evaluated once, then Op is applied.
\* (JavaScript evaluates arguments before the call; TLC would re-evaluate an
\* argument expression at each use of the parameter.)
Apply1(Op(_), x) == CHOOSE r \in {Op(u) : u \in {x}} : TRUE
Apply2(Op(_, _), x, y) == CHOOSE r \in {Op(u, v) : u \in {x}, v \in {y}} : TRUE
Apply3(Op(_, _, _), x, y, z) ==
  CHOOSE r \in {Op(u, v, w) : u \in {x}, v \in {y}, w \in {z}} : TRUE
Apply4(Op(_, _, _, _), x, y, z, t) ==
  CHOOSE r \in {Op(u, v, w, q) : u \in {x}, v \in {y}, w \in {z}, q \in {t}} : TRUE

Abs(x) == IF x < 0 THEN -x ELSE x

RECURSIVE Gcd(_, _)
Gcd(a, b) == IF b = 0 THEN a ELSE Apply2(Gcd, b, a % b)

Lcm(a, b) == Apply2(LAMBDA u, v : (u \div Gcd(u, v)) * v, a, b)

\* The number n/d (d > 0) in lowest terms.
Rat(n, d) ==
  Apply3(LAMBDA u, v, g : [n |-> u \div g, d |-> v \div g], n, d, Gcd(Abs(n), d))

Zero == Rat(0, 1)
Unit == Rat(1, 1)
MinusOne == Rat(-1, 1)

RAdd(x, y) ==
  Apply3(LAMBDA u, v, l : Rat(u.n * (l \div u.d) + v.n * (l \div v.d), l),
         x, y, Lcm(x.d, y.d))

RMul(x, y) ==
  Apply2(LAMBDA u, v : Rat(u.n * v.n, u.d * v.d), x, y)

RDivInt(x, k) == Apply2(LAMBDA u, v : Rat(u.n, u.d * v), x, k)

RLt(x, y) == Apply2(LAMBDA u, v : u.n * v.d < v.n * u.d, x, y)

RLe(x, y) == ~RLt(y, x)

\* Math.min and Math.max
MathMin(x, y) == Apply2(LAMBDA u, v : IF RLt(v, u) THEN v ELSE u, x, y)
MathMax(x, y) == Apply2(LAMBDA u, v : IF RLt(u, v) THEN v ELSE u, x, y)

\* Math.sqrt on the perfect squares the modelled vectors have as norms.
ISqrt(n) == CHOOSE r \in 0..n : r * r <= n /\ n < (r + 1) * (r + 1)

\* ------------------------------------------------------------------------
\* Strings
\* ------------------------------------------------------------------------

UpperChars == <<"A", "B", "C", "D", "E", "F", "G", "H", "I", "J", "K", "L", "M",
                "N", "O", "P", "Q", "R", "S", "T", "U", "V", "W", "X", "Y", "Z">>
LowerChars == <<"a", "b", "c", "d", "e", "f", "g", "h", "i", "j", "k", "l", "m",
                "n", "o", "p", "q", "r", "s", "t", "u", "v", "w", "x", "y", "z">>

IsWhitespace(ch) == ch \in {" ", "\t"}

ToLowerChar(ch) ==
  IF \E i \in 1..Len(UpperChars) : UpperChars[i] = ch
  THEN LowerChars[CHOOSE i \in 1..Len(UpperChars) : UpperChars[i] = ch]
  ELSE ch

\* String.prototype.toLowerCase
ToLowerCase(s) == Apply1(LAMBDA u : [i \in 1..Len(u) |-> ToLowerChar(u[i])], s)

\* String.prototype.trim
Trim(s) ==
  LET Kept(u, keep) ==
        IF keep = {} THEN <<>>
        ELSE LET lo == CHOOSE i \in keep : \A j \in keep : i <= j
                 hi == CHOOSE i \in keep : \A j \in keep : j <= i
             IN  SubSeq(u, lo, hi)
  IN  Apply2(Kept, s, {i \in 1..Len(s) : ~IsWhitespace(s[i])})

\* String.prototype.includes
Includes(s, t) ==
  \E i \in 1..(Len(s) + 1) :
    /\ i + Len(t) - 1 <= Len(s)
    /\ SubSeq(s, i, i + Len(t) - 1) = t

RECURSIVE SplitFrom(_, _, _, _)
SplitFrom(s, i, cur, acc) ==
  IF i > Len(s) THEN Append(acc, cur)
  ELSE IF IsWhitespace(s[i])
       THEN LET rest == {j \in (i + 1)..Len(s) : ~IsWhitespace(s[j])}
                next == IF rest = {} THEN Len(s) + 1
                        ELSE CHOOSE j \in rest : \A k \in rest : j <= k
            IN  Apply4(SplitFrom, s, next, <<>>, Append(acc, cur))
       ELSE Apply4(SplitFrom, s, i + 1, Append(cur, s[i]), acc)

\* String.prototype.split(/\s+/): a leading or trailing run of whitespace
\* leaves an empty first or last word.
SplitWhitespace(s) == Apply4(SplitFrom, s, 1, <<>>, <<>>)

RECURSIVE JoinFrom(_, _)
JoinFrom(parts, i) ==
  IF i > Len(parts) THEN <<>>
  ELSE IF i = Len(parts) THEN parts[i]
       ELSE parts[i] \o <<" ">> \o Apply2(JoinFrom, parts, i + 1)

\* Array.prototype.join(' ')
JoinSpace(parts) == Apply2(JoinFrom, parts, 1)

Range(s) == {s[i] : i \in 1..Len(s)}

\* ------------------------------------------------------------------------
\* SemanticService: the pure part
\* ------------------------------------------------------------------------

\* A Skill's optional description and category are <<>> when absent (an
\* empty string is falsy in skillToText, like undefined).
SkillToText(skill) ==
  ToLowerCase(JoinSpace(
    <<skill.name>>
    \o (IF skill.description # <<>> THEN <<skill.description>> ELSE <<>>)
    \o (IF skill.category # <<>> THEN <<skill.category>> ELSE <<>>)
    \o <<skill.level>>))

FallbackSimilarity(skillA, skillB) ==
  LET Words(wordsA, wordsB) ==
        LET InB(word) == word \in Range(wordsB)
            commonWords == SelectSeq(wordsA, InB)
        IN  IF Len(commonWords) > 0
            THEN RMul(Rat(Len(commonWords),
                          IF Len(wordsA) > Len(wordsB) THEN Len(wordsA) ELSE Len(wordsB)),
                      Rat(1, 2))
            ELSE Zero
      Names(nameA, nameB) ==
        IF nameA = nameB THEN Unit
        ELSE IF Includes(nameA, nameB) \/ Includes(nameB, nameA) THEN Rat(7, 10)
        ELSE Apply2(Words, SplitWhitespace(nameA), SplitWhitespace(nameB))
  IN  Apply2(Names, ToLowerCase(skillA.name), ToLowerCase(skillB.name))

RECURSIVE DotFrom(_, _, _)
DotFrom(vecA, vecB, i) ==
  IF i > Len(vecA) THEN 0 ELSE vecA[i] * vecB[i] + Apply3(DotFrom, vecA, vecB, i + 1)

\* cosineSimilarity of two vectors of the same length (the caller decides
\* what a length mismatch, which throws, leads to).
CosineSimilarity(vecA, vecB) ==
  LET Quotient(dotProduct, denominator) ==
        IF denominator = 0 THEN Zero ELSE Rat(dotProduct, denominator)
      Cosine(a, b) ==
        Apply2(Quotient, DotFrom(a, b, 1),
               ISqrt(DotFrom(a, a, 1)) * ISqrt(DotFrom(b, b, 1)))
  IN  Apply2(Cosine, vecA, vecB)

\* The embedding model's answer for a text: a stand-in for the external
\* feature-extraction pipeline.  The vectors have integer norms.  A
\* "ragged" provider answers texts of even length with one more component.
ModelVector(text) ==
  LET Vector(first) ==
        CASE first = "j" -> <<3, 4>>
          [] first = "s" -> <<4, 3>>
          [] first = "w" -> <<0, 5>>
          [] first = "d" -> <<-3, -4>>
          [] OTHER -> <<0, 0>>
  IN  Apply1(Vector, IF text = <<>> THEN "" ELSE text[1])

PipelineOutput(mode, text) ==
  LET Output(t) == IF mode = "ragged" /\ Len(t) % 2 = 0
                   THEN Append(ModelVector(t), 0)
                   ELSE ModelVector(t)
  IN  Apply1(Output, text)

\* What the try block of calculateSkillSimilarity raises, if anything.
SimilarityError(mode, skillA, skillB) ==
  IF mode = "throws" THEN "provider"
  ELSE IF Len(PipelineOutput(mode, SkillToText(skillA)))
          # Len(PipelineOutput(mode, SkillToText(skillB)))
       THEN "mismatch"
       ELSE "none"

MismatchScoresZero(mode, skillA, skillB) ==
  IF SimilarityError(mode, skillA, skillB) = "mismatch" THEN Zero
  ELSE IF SimilarityError(mode, skillA, skillB) = "provider"
       THEN FallbackSimilarity(skillA, skillB)
       ELSE MathMax(Zero,
              RDivInt(RAdd(CosineSimilarity(PipelineOutput(mode, SkillToText(skillA)),
                                            PipelineOutput(mode, SkillToText(skillB))),
                           Unit), 2))

\* calculateSkillSimilarity once the embedding pipeline is loaded: the
\* score of the try block, or of the catch block's fallback.
CalculateSkillSimilarity(mode, skillA, skillB) ==
  IF SimilarityError(mode, skillA, skillB) # "none"
  THEN FallbackSimilarity(skillA, skillB)
  ELSE MathMax(Zero,
         RDivInt(RAdd(CosineSimilarity(PipelineOutput(mode, SkillToText(skillA)),
                                       PipelineOutput(mode, SkillToText(skillB))),
                      Unit), 2))

\* ------------------------------------------------------------------------
\* LanguageService
\* ------------------------------------------------------------------------

LowerCasedLanguages(user) ==
  {ToLowerCase(user.languages[i]) : i \in 1..Len(user.languages)}

NormalizedLanguages(user) ==
  {Trim(ToLowerCase(user.languages[i])) : i \in 1..Len(user.languages)}

PrimaryBonusAlways(userA, userB) ==
  LET languagesA == NormalizedLanguages(userA)
      languagesB == NormalizedLanguages(userB)
      commonLanguages == languagesA \cap languagesB
      totalUniqueLanguages == Cardinality(languagesA \cup languagesB)
      base == IF Cardinality(commonLanguages) > 0
              THEN MathMin(Unit,
                     RAdd(Rat(1, 2),
                          RMul(Rat(Cardinality(commonLanguages), totalUniqueLanguages),
                               Rat(1, 2))))
              ELSE Zero
      primary == Len(userA.languages) > 0 /\ Len(userB.languages) > 0
  IN  [score |-> IF primary THEN MathMin(Unit, RAdd(base, Rat(1, 5))) ELSE base,
       commonLanguages |-> commonLanguages,
       totalLanguages |-> totalUniqueLanguages]

CalculateLanguageSimilarity(userA, userB) ==
  LET languagesA == NormalizedLanguages(userA)
      languagesB == NormalizedLanguages(userB)
      commonLanguages == languagesA \cap languagesB
      totalUniqueLanguages == Cardinality(languagesA \cup languagesB)
      base == IF Cardinality(commonLanguages) > 0
              THEN MathMin(Unit,
                     RAdd(Rat(1, 2),
                          RMul(Rat(Cardinality(commonLanguages), totalUniqueLanguages),
                               Rat(1, 2))))
              ELSE Zero
      primary == /\ Len(userA.languages) > 0
                 /\ Len(userB.languages) > 0
                 /\ Trim(ToLowerCase(userA.languages[1]))
                      = Trim(ToLowerCase(userB.languages[1]))
  IN  [score |-> IF primary THEN MathMin(Unit, RAdd(base, Rat(1, 5))) ELSE base,
       commonLanguages |-> commonLanguages,
       totalLanguages |-> totalUniqueLanguages]

\* ------------------------------------------------------------------------
\* TrustService
\* ------------------------------------------------------------------------

RawTrustScore(score) == score

NormalizeTrustScore(score) == MathMax(Zero, MathMin(Unit, score))

CalculateTrustScore(userA, userB) ==
  LET userATrust == NormalizeTrustScore(userA.trustScore)
      userBTrust == NormalizeTrustScore(userB.trustScore)
      averageTrust == RDivInt(RAdd(userATrust, userBTrust), 2)
      penalized == IF RLt(userATrust, Rat(3, 10)) \/ RLt(userBTrust, Rat(3, 10))
                   THEN RMul(averageTrust, Rat(7, 10))
                   ELSE averageTrust
      finalScore == IF RLt(Rat(8, 10), userATrust) /\ RLt(Rat(8, 10), userBTrust)
                    THEN MathMin(Unit, RMul(averageTrust, Rat(11, 10)))
                    ELSE penalized
  IN  [score |-> MathMax(Zero, MathMin(Unit, finalScore)),
       factors |-> [userATrust |-> userATrust,
                    userBTrust |-> userBTrust,
                    averageTrust |-> averageTrust]]

\* ------------------------------------------------------------------------
\* MatchingEngine: the pure part
\* ------------------------------------------------------------------------

Beginner == <<"b", "e", "g", "i", "n", "n", "e", "r">>
Intermediate == <<"i", "n", "t", "e", "r", "m", "e", "d", "i", "a", "t", "e">>
Advanced == <<"a", "d", "v", "a", "n", "c", "e", "d">>
Expert == <<"e", "x", "p", "e", "r", "t">>

GetLevelWeight(level) ==
  CASE level = Beginner -> Rat(1, 2)
    [] level = Intermediate -> Rat(3, 4)
    [] level = Advanced -> Rat(9, 10)
    [] level = Expert -> Unit
    [] OTHER -> Rat(1, 2)

RECURSIVE SumFrom(_, _)
SumFrom(scores, i) ==
  IF i > Len(scores) THEN Zero ELSE RAdd(scores[i], SumFrom(scores, i + 1))

RECURSIVE MaxFrom(_, _)
MaxFrom(scores, i) ==
  IF i = Len(scores) THEN scores[i]
  ELSE MathMax(scores[i], MaxFrom(scores, i + 1))

AverageOnly(scores) ==
  IF Len(scores) = 0 THEN Zero ELSE RDivInt(SumFrom(scores, 1), Len(scores))

\* The tail of calculateSemanticScoreAtoB: 70% average, 30% max.
CombineScores(scores) ==
  IF Len(scores) = 0 THEN Zero
  ELSE RAdd(RMul(RDivInt(SumFrom(scores, 1), Len(scores)), Rat(7, 10)),
            RMul(MaxFrom(scores, 1), Rat(3, 10)))

NoClamp(x) == x

\* Math.max(0, Math.min(1, x))
Clamp01(x) == MathMax(Zero, MathMin(Unit, x))

WeightedSumNoTrust(weights, semAtoB, semBtoA, languageScore, trustScore) ==
  RAdd(RAdd(RMul(weights.w1, semAtoB), RMul(weights.w2, semBtoA)),
       RMul(weights.w3, languageScore))

WeightedSumAtoBTwice(weights, semAtoB, semBtoA, languageScore, trustScore) ==
  RAdd(RAdd(RMul(weights.w1, semAtoB), RMul(weights.w2, semAtoB)),
       RAdd(RMul(weights.w3, languageScore), RMul(weights.w4, trustScore)))

WeightedSum(weights, semAtoB, semBtoA, languageScore, trustScore) ==
  RAdd(RAdd(RMul(weights.w1, semAtoB), RMul(weights.w2, semBtoA)),
       RAdd(RMul(weights.w3, languageScore), RMul(weights.w4, trustScore)))

\* The MatchScore calculateMatchScore returns, given its two directional
\* semantic scores.
MatchScoreOf(userA, userB, weights, semAtoB, semBtoA) ==
  [totalScore |-> Clamp01(WeightedSum(weights, semAtoB, semBtoA,
                                      CalculateLanguageSimilarity(userA, userB).score,
                                      CalculateTrustScore(userA, userB).score)),
   semanticScoreAtoB |-> semAtoB,
   semanticScoreBtoA |-> semBtoA,
   languageScore |-> CalculateLanguageSimilarity(userA, userB).score,
   trustScore |-> CalculateTrustScore(userA, userB).score,
   breakdown |-> weights]

SelfAllowed(user, candidate) == FALSE

\* findMatches: "Skip self"
IsSelf(user, candidate) == user.id = candidate.id

StrictlyAbove(totalScore, minScore) == RLt(minScore, totalScore)

\* findMatches: "Only include matches above threshold"
MeetsThreshold(totalScore, minScore) == RLe(minScore, totalScore)

\* Where a stable sort by (b.totalScore - a.totalScore) puts m among the
\* entries already in order: after every entry that does not score lower.
InsertByScore(sorted, m) ==
  LET before == {j \in 1..Len(sorted) :
                   RLe(m.matchScore.totalScore, sorted[j].matchScore.totalScore)}
      k == Cardinality(before)
  IN  SubSeq(sorted, 1, k) \o <<m>> \o SubSeq(sorted, k + 1, Len(sorted))

RECURSIVE SortFrom(_, _, _)
SortFrom(matches, i, sorted) ==
  IF i > Len(matches) THEN sorted
  ELSE Apply3(SortFrom, matches, i + 1, InsertByScore(sorted, matches[i]))

InsertBeforeEqual(sorted, m) ==
  LET before == {j \in 1..Len(sorted) :
                   RLt(m.matchScore.totalScore, sorted[j].matchScore.totalScore)}
      k == Cardinality(before)
  IN  SubSeq(sorted, 1, k) \o <<m>> \o SubSeq(sorted, k + 1, Len(sorted))

RECURSIVE UnstableFrom(_, _, _)
UnstableFrom(matches, i, sorted) ==
  IF i > Len(matches) THEN sorted
  ELSE Apply3(UnstableFrom, matches, i + 1, InsertBeforeEqual(sorted, matches[i]))

UnstableSort(matches) == Apply3(UnstableFrom, matches, 1, <<>>)

\* matches.sort((a, b) => b.matchScore.totalScore - a.matchScore.totalScore);
\* Array.prototype.sort is stable.
SortMatches(matches) == Apply3(SortFrom, matches, 1, <<>>)

\* matches.slice(0, maxResults): a negative end counts from the end.
SliceTo(matches, maxResults) ==
  LET end == IF maxResults < 0
             THEN (IF Len(matches) + maxResults < 0 THEN 0 ELSE Len(matches) + maxResults)
             ELSE (IF maxResults > Len(matches) THEN Len(matches) ELSE maxResults)
  IN  SubSeq(matches, 1, end)

\* ------------------------------------------------------------------------
\* Inputs: skills, profiles, weights, configs, requests
\* ------------------------------------------------------------------------

Str_en == <<"e", "n">>
Str_JavaScript == <<"J", "a", "v", "a", "S", "c", "r", "i", "p", "t">>
Str_Spanish == <<"S", "p", "a", "n", "i", "s", "h">>

Skill(name, level, category) ==
  [name |-> name, description |-> <<>>, category |-> category, level |-> level]

\* The two profiles of the worked example.
Alice ==
  [id |-> "a", languages |-> <<Str_en>>,
   offers |-> <<Skill(Str_JavaScript, Expert, <<>>)>>,
   wants |-> <<Skill(Str_Spanish, Beginner, <<>>)>>,
   trustScore |-> Rat(1, 2)]

Bob ==
  [id |-> "b", languages |-> <<Str_en>>,
   offers |-> <<Skill(Str_Spanish, Advanced, <<>>)>>,
   wants |-> <<Skill(Str_JavaScript, Intermediate, <<"i", "t">>)>>,
   trustScore |-> Rat(1, 2)]

\* Bob's profile under another id: scores what Bob scores.
Bea == [Bob EXCEPT !.id = "c"]

\* Other languages, two offers, a trust rating above the 0-1 scale.
Carol ==
  [id |-> "d", languages |-> <<<<"E", "S", " ">>, <<"f", "r">>>>,
   offers |-> <<Skill(<<"s", "p", "a", "n", "i", "s", "h", " ", "c", "h", "a", "t">>,
                      Intermediate, <<>>),
                Skill(<<"d", "e", "s", "i", "g", "n">>, Beginner, <<>>)>>,
   wants |-> <<Skill(<<"J", "a", "v", "a">>, Beginner, <<>>)>>,
   trustScore |-> Rat(3, 2)]

\* Nothing declared, low trust.
Dave ==
  [id |-> "e", languages |-> <<>>, offers |-> <<>>, wants |-> <<>>,
   trustScore |-> Rat(1, 10)]

Profiles == {Alice, Bob, Bea, Carol, Dave}

QueryProfiles == {Alice}

DEFAULT_WEIGHTS ==
  [w1 |-> Rat(35, 100), w2 |-> Rat(35, 100), w3 |-> Rat(15, 100), w4 |-> Rat(15, 100)]

\* Non-negative weights that sum to more than 1.
HeavyWeights == [w1 |-> Unit, w2 |-> Rat(1, 2), w3 |-> Unit, w4 |-> Rat(1, 2)]

NegativeWeights == [DEFAULT_WEIGHTS EXCEPT !.w1 = Rat(-1, 2)]

WeightVectors == {DEFAULT_WEIGHTS, HeavyWeights, NegativeWeights}

HasNegativeWeight(weights) ==
  \/ RLt(weights.w1, Zero) \/ RLt(weights.w2, Zero)
  \/ RLt(weights.w3, Zero) \/ RLt(weights.w4, Zero)

DefaultMinMatchScore == Rat(3, 10)
DefaultMaxResults == 50

\* MatchingConfig after the defaults of findMatches.
Configs ==
  {[minMatchScore |-> DefaultMinMatchScore, maxResults |-> DefaultMaxResults],
   [minMatchScore |-> Rat(89, 100), maxResults |-> DefaultMaxResults],
   [minMatchScore |-> Zero, maxResults |-> 1],
   [minMatchScore |-> Zero, maxResults |-> 0]}

RECURSIVE SeqsUpTo(_, _)
SeqsUpTo(S, n) ==
  IF n = 0 THEN {<<>>}
  ELSE LET shorter == SeqsUpTo(S, n - 1)
       IN  shorter \cup {Append(q, x) : q \in shorter, x \in S}

InitializeRequest ==
  [kind |-> "initialize", user |-> Alice, candidates |-> <<>>,
   weights |-> DEFAULT_WEIGHTS,
   minMatchScore |-> DefaultMinMatchScore, maxResults |-> DefaultMaxResults]

FindRequest(user, candidates, weights, config) ==
  [kind |-> "findMatches", user |-> user, candidates |-> candidates,
   weights |-> weights,
   minMatchScore |-> config.minMatchScore, maxResults |-> config.maxResults]

ScoreRequest(userA, userB, weights) ==
  [kind |-> "calculateMatchScore", user |-> userA, candidates |-> <<userB>>,
   weights |-> weights,
   minMatchScore |-> DefaultMinMatchScore, maxResults |-> DefaultMaxResults]

\* The calls one caller alone may make (RankSpec).
AllRequests ==
  {InitializeRequest}
  \cup {FindRequest(u, cs, w, cfg) :
          u \in QueryProfiles, cs \in SeqsUpTo(Profiles, MaxCandidates),
          w \in WeightVectors, cfg \in Configs}
  \cup {ScoreRequest(a, b, w) : a \in Profiles, b \in Profiles, w \in WeightVectors}

\* The calls callers make concurrently (Spec).
ConcurrentRequests ==
  {InitializeRequest,
   FindRequest(Alice, <<Bob, Alice>>, DEFAULT_WEIGHTS,
               [minMatchScore |-> DefaultMinMatchScore, maxResults |-> DefaultMaxResults]),
   FindRequest(Alice, <<Dave, Bob>>, NegativeWeights,
               [minMatchScore |-> Zero, maxResults |-> 1]),
   ScoreRequest(Alice, Bob, DEFAULT_WEIGHTS),
   ScoreRequest(Bob, Carol, NegativeWeights)}

\* Alice's offers with other wants, languages and trust.
Alma ==
  [id |-> "f", languages |-> <<<<"e", "s">>>>,
   offers |-> Alice.offers,
   wants |-> <<Skill(<<"d", "e", "s", "i", "g", "n">>, Beginner, <<>>),
               Skill(Str_Spanish, Beginner, <<>>)>>,
   trustScore |-> Rat(9, 10)]

\* Bob's wants with other offers, languages and trust.
Bert ==
  [id |-> "g", languages |-> <<<<"f", "r">>>>,
   offers |-> <<Skill(<<"c", "h", "a", "t">>, Intermediate, <<>>)>>,
   wants |-> Bob.wants,
   trustScore |-> Rat(1, 10)]

\* Offers only, at a level outside the four the type names.
Erin ==
  [id |-> "h", languages |-> <<Str_en>>,
   offers |-> <<Skill(<<"w", "e", "b", " ", "d", "e", "s", "i", "g", "n">>,
                      <<"g", "u", "r", "u">>, <<>>)>>,
   wants |-> <<>>,
   trustScore |-> Rat(1, 2)]

\* The calculateMatchScore calls two callers make side by side (PairSpec):
\* pairs in both orders, pairs that agree on one side's offers and the
\* other's wants only, pairs with an empty direction.
PairRequests ==
  {ScoreRequest(Alice, Bob, DEFAULT_WEIGHTS),
   ScoreRequest(Bob, Alice, DEFAULT_WEIGHTS),
   ScoreRequest(Alma, Bert, DEFAULT_WEIGHTS),
   ScoreRequest(Bert, Alma, DEFAULT_WEIGHTS),
   ScoreRequest(Alice, Erin, DEFAULT_WEIGHTS),
   ScoreRequest(Erin, Alice, DEFAULT_WEIGHTS),
   ScoreRequest(Dave, Alice, DEFAULT_WEIGHTS),
   ScoreRequest(Bob, Carol, DEFAULT_WEIGHTS),
   ScoreRequest(Carol, Bob, DEFAULT_WEIGHTS),
   ScoreRequest(Alice, Bob, HeavyWeights),
   ScoreRequest(Bob, Alice, HeavyWeights)}

\* Language lists handed to the language service: none, one, padded and
\* upper-cased spellings, a repeated language, other first languages.
LanguageLists ==
  {<<>>,
   <<Str_en>>,
   <<<<" ", "E", "n">>>>,
   <<<<"f", "r">>, Str_en>>,
   <<<<"E", "S", " ">>, <<"f", "r">>>>,
   <<Str_en, <<"E", "N">>>>,
   <<<<"e", "s">>>>}

\* Raw trust ratings, some outside the 0-1 scale.
TrustRatings ==
  {Rat(-1, 2), Zero, Rat(1, 10), Rat(3, 10), Rat(1, 2), Rat(8, 10), Rat(9, 10),
   Unit, Rat(3, 2)}

\* Skill names handed to the lexical fallback.
SkillNames ==
  {<<"J", "a", "v", "a">>,
   <<"j", "a", "v", "a">>,
   Str_JavaScript,
   <<"j", "a", "v", "a", " ", "j", "a", "v", "a", " ", "a", "p", "i">>,
   <<"j", "a", "v", "a", " ", "c", "o", "d", "e">>,
   <<"c", "o", "d", "e", " ", "j", "a", "m">>,
   <<"s", "p", "a", "n", "i", "s", "h", " ", " ", "c", "h", "a", "t">>,
   <<"c", "h", "a", "t">>}


Callers == {1, 2}

\* How the embedding provider behaves in a run:
\*   healthy  the model loads and answers every text with its vector
\*   noload   pipeline(...) rejects: the model cannot be loaded
\*   throws   the model loads, every embedding call rejects
\*   ragged   the model loads, its vectors differ in length
\*   silent   the model loads, an embedding call is never answered
ProviderModes == {"healthy", "noload", "throws", "ragged", "silent"}

\* ------------------------------------------------------------------------
\* State
\* ------------------------------------------------------------------------

VARIABLES
  initialized,        \* SemanticService.initialized
  embeddingPipeline,  \* SemanticService.embeddingPipeline: "null" or "loaded"
  pipelineLoads,      \* how many times pipeline(...) has been called
  providerMode,       \* the embedding provider's behaviour in this run
  call                \* per caller: the call it makes and how far it has got

vars == <<initialized, embeddingPipeline, pipelineLoads, providerMode, call>>

\* A caller's call.  pc is the await the call is suspended at:
\*   idle       no call made yet
\*   init_load  initialize(), called directly, awaits pipeline(...)
\*   find_load  findMatches awaits initialize(), which awaits pipeline(...)
\*   sim        calculateSkillSimilarity of offer o and want w is at
\*              getEmbedding
\*   sim_load   that getEmbedding awaits initialize()
\*   returned   the call's promise is fulfilled
\*   failed     the call's promise is rejected
\* i, dir, o, w: the candidate, direction (1: A to B, 2: B to A), offer and
\* want the loops are at.  Four fields record what the call has done:
\* similarities counts its calculateSkillSimilarity calls, lastSimilarity
\* holds the latest one (what its try block raised, and its score),
\* scoredTotals the position and totalScore of every candidate scored, and
\* directionScores the `scores` array of each direction of the current
\* calculateMatchScore (empty for a direction that returned early).
\* args and result are the arguments and the return value of a call made
\* to the language service, the trust service or the lexical fallback.
IdleCall ==
  [pc |-> "idle", kind |-> "none", user |-> Alice, candidates |-> <<>>,
   weights |-> DEFAULT_WEIGHTS, minMatchScore |-> Zero, maxResults |-> 0,
   i |-> 1, dir |-> 1, o |-> 1, w |-> 1,
   bestScore |-> MinusOne, scores |-> <<>>, semanticScoreAtoB |-> Zero,
   similarities |-> 0, lastSimilarity |-> <<>>, scoredTotals |-> <<>>,
   matches |-> <<>>, limitedMatches |-> <<>>, matchScore |-> <<>>,
   error |-> "none",
   directionScores |-> <<>>, args |-> <<>>, result |-> <<>>]

Candidate(f) == f.candidates[f.i]
SourceNotSwapped(f) == f.user

Source(f) == IF f.dir = 1 THEN f.user ELSE Candidate(f)
Target(f) == IF f.dir = 1 THEN Candidate(f) ELSE f.user
CurrentOffer(f) == Source(f).offers[f.o]
CurrentWant(f) == Target(f).wants[f.w]

\* The end of findMatches: sort, slice, return.
ReturnMatches(f) ==
  [f EXCEPT !.pc = "returned",
            !.limitedMatches = Apply2(SliceTo, SortMatches(f.matches), f.maxResults)]

\* The end of calculateMatchScore, and what its caller does with the score.
ScoreDone(f, matchScore) ==
  IF f.kind = "calculateMatchScore"
  THEN [f EXCEPT !.pc = "returned", !.matchScore = <<matchScore>>]
  ELSE [f EXCEPT !.pc = "candidate",
                 !.i = @ + 1,
                 !.scoredTotals = Append(@, [position |-> f.i,
                                             totalScore |-> matchScore.totalScore]),
                 !.matches =
                    IF MeetsThreshold(matchScore.totalScore, f.minMatchScore)
                    THEN Append(@, [userA |-> f.user, userB |-> Candidate(f),
                                    matchScore |-> matchScore, position |-> f.i])
                    ELSE @]

\* The end of calculateSemanticScoreAtoB for the current direction.
DirectionDone(f, score) ==
  IF f.dir = 1
  THEN [f EXCEPT !.pc = "direction", !.dir = 2, !.semanticScoreAtoB = score,
                 !.directionScores = Append(@, f.scores)]
  ELSE Apply2(ScoreDone, [f EXCEPT !.directionScores = Append(@, f.scores)],
              MatchScoreOf(f.user, Candidate(f), f.weights,
                           f.semanticScoreAtoB, score))

\* The code that runs without touching the semantic service, up to the next
\* calculateSkillSimilarity or the end of the call.  pc "candidate" is the
\* head of findMatches' loop, pc "direction" the head of
\* calculateSemanticScoreAtoB; neither outlives a step.
RECURSIVE RunLocal(_)
RunLocalBothEmpty(f) ==
  CASE f.pc = "candidate" ->
         IF f.i > Len(f.candidates) THEN ReturnMatches(f)
         ELSE IF IsSelf(f.user, Candidate(f))
              THEN Apply1(RunLocal, [f EXCEPT !.i = @ + 1])
              ELSE Apply1(RunLocal, [f EXCEPT !.pc = "direction", !.dir = 1,
                                               !.directionScores = <<>>])
    [] f.pc = "direction" ->
         IF Len(Source(f).offers) = 0 /\ Len(Target(f).wants) = 0
         THEN Apply1(RunLocal, Apply2(DirectionDone, [f EXCEPT !.scores = <<>>], Zero))
         ELSE [f EXCEPT !.pc = "sim", !.o = 1, !.w = 1,
                        !.bestScore = MinusOne, !.scores = <<>>]
    [] OTHER -> f

RunLocal(f) ==
  CASE f.pc = "candidate" ->
         IF f.i > Len(f.candidates) THEN ReturnMatches(f)
         ELSE IF IsSelf(f.user, Candidate(f))
              THEN Apply1(RunLocal, [f EXCEPT !.i = @ + 1])
              ELSE Apply1(RunLocal, [f EXCEPT !.pc = "direction", !.dir = 1,
                                               !.directionScores = <<>>])
    [] f.pc = "direction" ->
         IF Len(Source(f).offers) = 0 \/ Len(Target(f).wants) = 0
         THEN Apply1(RunLocal, Apply2(DirectionDone, [f EXCEPT !.scores = <<>>], Zero))
         ELSE [f EXCEPT !.pc = "sim", !.o = 1, !.w = 1,
                        !.bestScore = MinusOne, !.scores = <<>>]
    [] OTHER -> f

\* calculateSkillSimilarity returned `score` (after raising `raised` in its
\* try block): the rest of findBestMatch's and calculateSemanticScoreAtoB's
\* loops.
AfterSimilarity(f, raised, score) ==
  LET best == IF RLt(f.bestScore, score) THEN score ELSE f.bestScore
      g == [f EXCEPT !.similarities = @ + 1,
                     !.lastSimilarity = <<[skillA |-> CurrentOffer(f),
                                           skillB |-> CurrentWant(f),
                                           raised |-> raised,
                                           score |-> score]>>]
  IN  IF f.w < Len(Target(f).wants)
      THEN [g EXCEPT !.w = @ + 1, !.bestScore = best]
      ELSE LET scores == IF best = MinusOne THEN f.scores
                         ELSE Append(f.scores,
                                     RMul(best, GetLevelWeight(CurrentOffer(f).level)))
           IN  IF f.o < Len(Source(f).offers)
               THEN [g EXCEPT !.o = @ + 1, !.w = 1,
                              !.bestScore = MinusOne, !.scores = scores]
               ELSE Apply1(RunLocal,
                           Apply2(DirectionDone, [g EXCEPT !.scores = scores],
                                  Apply1(CombineScores, scores)))

\* ------------------------------------------------------------------------
\* Actions
\* ------------------------------------------------------------------------

Init ==
  /\ initialized = FALSE
  /\ embeddingPipeline = "null"
  /\ pipelineLoads = 0
  /\ providerMode \in ProviderModes
  /\ call = [c \in Callers |-> IdleCall]

IsReady == initialized /\ embeddingPipeline # "null"

\* A caller makes its call; the call runs to its first await.  initialize()
\* and findMatches, which awaits initialize(), return at once from
\* initialize() when the service is ready and call pipeline(...) otherwise;
\* calculateMatchScore runs to its first calculateSkillSimilarity.  A caller
\* whose initialize() has returned (the server's startup) may call again.
MayCall(c) ==
  \/ call[c].pc = "idle"
  \/ call[c].pc = "returned" /\ call[c].kind = "initialize"

Call(c, request) ==
  /\ MayCall(c)
  /\ LET f == [call[c] EXCEPT !.kind = request.kind,
                             !.user = request.user,
                             !.candidates = request.candidates,
                             !.weights = request.weights,
                             !.minMatchScore = request.minMatchScore,
                             !.maxResults = request.maxResults]
         loads == request.kind \in {"initialize", "findMatches"} /\ ~IsReady
     IN  /\ call' = [call EXCEPT ![c] =
                       CASE request.kind = "initialize" ->
                              [f EXCEPT !.pc = IF IsReady THEN "returned" ELSE "init_load"]
                         [] request.kind = "findMatches" ->
                              IF IsReady THEN Apply1(RunLocal, [f EXCEPT !.pc = "candidate"])
                              ELSE [f EXCEPT !.pc = "find_load"]
                         [] OTHER -> Apply1(RunLocal, [f EXCEPT !.pc = "direction"])]
         /\ pipelineLoads' = IF loads THEN pipelineLoads + 1 ELSE pipelineLoads
  /\ UNCHANGED <<initialized, embeddingPipeline, providerMode>>

\* getEmbedding finds no pipeline and calls initialize(), which calls
\* pipeline(...).
GetEmbeddingInitialize(c) ==
  /\ call[c].pc = "sim"
  /\ embeddingPipeline = "null"
  /\ call' = [call EXCEPT ![c].pc = "sim_load"]
  /\ pipelineLoads' = pipelineLoads + 1
  /\ UNCHANGED <<initialized, embeddingPipeline, providerMode>>

\* pipeline(...) resolves: initialize() stores the pipeline and returns, and
\* its caller goes on (getEmbedding to its embedding call).
LoadSucceeds(c) ==
  /\ call[c].pc \in {"init_load", "find_load", "sim_load"}
  /\ providerMode # "noload"
  /\ embeddingPipeline' = "loaded"
  /\ initialized' = TRUE
  /\ call' = [call EXCEPT ![c] =
                CASE call[c].pc = "init_load" -> [@ EXCEPT !.pc = "returned"]
                  [] call[c].pc = "find_load" ->
                       Apply1(RunLocal, [@ EXCEPT !.pc = "candidate"])
                  [] OTHER -> [@ EXCEPT !.pc = "sim"]]
  /\ UNCHANGED <<pipelineLoads, providerMode>>

\* pipeline(...) rejects: initialize() throws "Semantic service
\* initialization failed".  initialize() and findMatches let it through;
\* calculateSkillSimilarity catches it and falls back.
LoadFails(c) ==
  /\ call[c].pc \in {"init_load", "find_load", "sim_load"}
  /\ providerMode = "noload"
  /\ call' = [call EXCEPT ![c] =
                IF call[c].pc = "sim_load"
                THEN Apply3(AfterSimilarity, @, "provider",
                            FallbackSimilarity(CurrentOffer(@), CurrentWant(@)))
                ELSE [@ EXCEPT !.pc = "failed",
                               !.error = "Semantic service initialization failed"]]
  /\ UNCHANGED <<initialized, embeddingPipeline, pipelineLoads, providerMode>>

\* One calculateSkillSimilarity with the pipeline loaded: two embeddings, the
\* cosine, or the catch block's fallback.  A silent provider never answers
\* the first embedding call, and the call stays here.
SkillSimilarity(c) ==
  /\ call[c].pc = "sim"
  /\ embeddingPipeline # "null"
  /\ providerMode # "silent"
  /\ call' = [call EXCEPT ![c] =
                Apply3(AfterSimilarity, @,
                  SimilarityError(providerMode, CurrentOffer(@), CurrentWant(@)),
                  CalculateSkillSimilarity(providerMode, CurrentOffer(@), CurrentWant(@)))]
  /\ UNCHANGED <<initialized, embeddingPipeline, pipelineLoads, providerMode>>

\* Several callers, interleaved at the awaits.
CallConcurrently ==
  \E c \in Callers : MayCall(c) /\ \E request \in ConcurrentRequests : Call(c, request)
InitializeInGetEmbedding == \E c \in Callers : GetEmbeddingInitialize(c)
ModelLoaded == \E c \in Callers : LoadSucceeds(c)
ModelLoadFailed == \E c \in Callers : LoadFails(c)
SimilarityComputed == \E c \in Callers : SkillSimilarity(c)

Next ==
  \/ CallConcurrently
  \/ InitializeInGetEmbedding
  \/ ModelLoaded
  \/ ModelLoadFailed
  \/ SimilarityComputed

Spec == Init /\ [][Next]_vars

Step(c) ==
  \/ MayCall(c) /\ \E request \in ConcurrentRequests : Call(c, request)
  \/ GetEmbeddingInitialize(c)
  \/ LoadSucceeds(c)
  \/ LoadFails(c)
  \/ SkillSimilarity(c)

\* The event loop runs every continuation that is ready; what the provider
\* does not answer stays unanswered.
FairSpec == Spec /\ \A c \in Callers : WF_vars(Step(c))

\* One caller, every request.
CallAlone == MayCall(1) /\ \E request \in AllRequests : Call(1, request)

RankNext ==
  \/ CallAlone
  \/ GetEmbeddingInitialize(1)
  \/ LoadSucceeds(1)
  \/ LoadFails(1)
  \/ SkillSimilarity(1)

RankSpec == Init /\ [][RankNext]_vars

\* Two callers, one calculateMatchScore each, interleaved at the awaits.
CallPair ==
  \E c \in Callers : MayCall(c) /\ \E request \in PairRequests : Call(c, request)

PairNext ==
  \/ CallPair
  \/ InitializeInGetEmbedding
  \/ ModelLoaded
  \/ ModelLoadFailed
  \/ SimilarityComputed

PairSpec == Init /\ [][PairNext]_vars

\* The language service, the trust service and the lexical fallback called
\* on their own: each runs to its return without an await.
CalculateLanguageSimilarityCall(c) ==
  /\ call[c].pc = "idle"
  /\ \E la \in LanguageLists, lb \in LanguageLists :
       LET userA == [Alice EXCEPT !.languages = la]
           userB == [Bob EXCEPT !.languages = lb]
       IN  call' = [call EXCEPT ![c] =
                      [@ EXCEPT !.pc = "returned",
                                !.kind = "calculateLanguageSimilarity",
                                !.args = <<userA, userB>>,
                                !.result = <<CalculateLanguageSimilarity(userA, userB)>>]]
  /\ UNCHANGED <<initialized, embeddingPipeline, pipelineLoads, providerMode>>

CalculateTrustScoreCall(c) ==
  /\ call[c].pc = "idle"
  /\ \E ta \in TrustRatings, tb \in TrustRatings :
       LET userA == [Alice EXCEPT !.trustScore = ta]
           userB == [Bob EXCEPT !.trustScore = tb]
       IN  call' = [call EXCEPT ![c] =
                      [@ EXCEPT !.pc = "returned",
                                !.kind = "calculateTrustScore",
                                !.args = <<userA, userB>>,
                                !.result = <<CalculateTrustScore(userA, userB)>>]]
  /\ UNCHANGED <<initialized, embeddingPipeline, pipelineLoads, providerMode>>

FallbackSimilarityCall(c) ==
  /\ call[c].pc = "idle"
  /\ \E na \in SkillNames, nb \in SkillNames :
       LET skillA == Skill(na, Expert, <<>>)
           skillB == Skill(nb, Beginner, <<>>)
       IN  call' = [call EXCEPT ![c] =
                      [@ EXCEPT !.pc = "returned",
                                !.kind = "fallbackSimilarity",
                                !.args = <<skillA, skillB>>,
                                !.result = <<FallbackSimilarity(skillA, skillB)>>]]
  /\ UNCHANGED <<initialized, embeddingPipeline, pipelineLoads, providerMode>>

ServiceNext ==
  \/ CalculateLanguageSimilarityCall(1)
  \/ CalculateTrustScoreCall(1)
  \/ FallbackSimilarityCall(1)

ServiceSpec == Init /\ [][ServiceNext]_vars

\* ------------------------------------------------------------------------
\* Properties
\* ------------------------------------------------------------------------

\* Every MatchScore a call has produced and kept: the one calculateMatchScore
\* returned, and those of findMatches' matches and returned list.
ProducedScores(f) ==
  Range(f.matchScore)
  \cup {f.matches[j].matchScore : j \in 1..Len(f.matches)}
  \cup {f.limitedMatches[j].matchScore : j \in 1..Len(f.limitedMatches)}

InUnitInterval(x) == RLe(Zero, x) /\ RLe(x, Unit)

\* w1*semanticScoreAtoB + w2*semanticScoreBtoA + w3*languageScore
\* + w4*trustScore of a MatchScore's own fields.
ReportedSum(ms) ==
  RAdd(RAdd(RMul(ms.breakdown.w1, ms.semanticScoreAtoB),
            RMul(ms.breakdown.w2, ms.semanticScoreBtoA)),
       RAdd(RMul(ms.breakdown.w3, ms.languageScore),
            RMul(ms.breakdown.w4, ms.trustScore)))

Returned(c, kind) == call[c].pc = "returned" /\ call[c].kind = kind

\* C1: with four non-negative weights, the totalScore of every MatchScore
\* that calculateMatchScore produces lies in [0,1], also when the weighted
\* sum of the sub-scores exceeds 1.
C1_TotalScoreInUnitInterval ==
  \A c \in Callers :
    ~HasNegativeWeight(call[c].weights) =>
      \A ms \in ProducedScores(call[c]) : InUnitInterval(ms.totalScore)

\* C1 witness: calculateMatchScore has returned, under non-negative weights,
\* a score whose weighted sum exceeds 1 and whose totalScore is 1.
C1_Witness ==
  \E c \in Callers :
    /\ Returned(c, "calculateMatchScore")
    /\ ~HasNegativeWeight(call[c].weights)
    /\ \E ms \in ProducedScores(call[c]) :
         RLt(Unit, ReportedSum(ms)) /\ ms.totalScore = Unit

\* C2: every MatchScore has totalScore = the clamp to [0,1] of
\* w1*semanticScoreAtoB + w2*semanticScoreBtoA + w3*languageScore
\* + w4*trustScore over its own sub-scores, and its breakdown is the weights
\* supplied; Alice and Bob of the worked example, scored by the lexical
\* fallback under the default weights, get 1, 9/10, 1, 1/2 and total 89/100.
C2_TotalIsClampedWeightedSum ==
  \A c \in Callers :
    /\ \A ms \in ProducedScores(call[c]) :
         /\ ms.breakdown = call[c].weights
         /\ ms.totalScore = (IF RLt(ReportedSum(ms), Zero) THEN Zero
                             ELSE IF RLt(Unit, ReportedSum(ms)) THEN Unit
                             ELSE ReportedSum(ms))
    /\ ( /\ Returned(c, "calculateMatchScore")
         /\ providerMode \in {"noload", "throws"}
         /\ call[c].user = Alice
         /\ call[c].candidates = <<Bob>>
         /\ call[c].weights = DEFAULT_WEIGHTS )
       => call[c].matchScore =
            <<[totalScore |-> Rat(89, 100),
               semanticScoreAtoB |-> Unit,
               semanticScoreBtoA |-> Rat(9, 10),
               languageScore |-> Unit,
               trustScore |-> Rat(1, 2),
               breakdown |-> DEFAULT_WEIGHTS]>>

\* C2 witness: the worked example has been scored by the lexical fallback.
C2_Witness ==
  \E c \in Callers :
    /\ Returned(c, "calculateMatchScore")
    /\ providerMode \in {"noload", "throws"}
    /\ call[c].user = Alice
    /\ call[c].candidates = <<Bob>>
    /\ call[c].weights = DEFAULT_WEIGHTS
    /\ call[c].similarities = 2
    /\ call[c].matchScore[1].totalScore = Rat(89, 100)

\* C3: no entry that findMatches keeps or returns has a userB with the id of
\* the query profile.
C3_NeverMatchesSelf ==
  \A c \in Callers :
    call[c].kind = "findMatches" =>
      /\ \A j \in 1..Len(call[c].matches) :
           call[c].matches[j].userB.id # call[c].user.id
      /\ \A j \in 1..Len(call[c].limitedMatches) :
           call[c].limitedMatches[j].userB.id # call[c].user.id

\* C3 witness: findMatches has returned a non-empty list for a candidate
\* list that holds the query profile twice.
C3_Witness ==
  \E c \in Callers :
    /\ Returned(c, "findMatches")
    /\ Cardinality({j \in 1..Len(call[c].candidates) :
                      call[c].candidates[j].id = call[c].user.id}) >= 2
    /\ Len(call[c].limitedMatches) > 0

\* C4: the list findMatches returns is in descending order of totalScore,
\* and entries of equal totalScore are in the order their candidates had in
\* the input list.
C4_SortedDescendingStable ==
  \A c \in Callers :
    Returned(c, "findMatches") =>
      \A j, k \in 1..Len(call[c].limitedMatches) :
        j < k =>
          LET a == call[c].limitedMatches[j]
              b == call[c].limitedMatches[k]
          IN  /\ RLe(b.matchScore.totalScore, a.matchScore.totalScore)
              /\ a.matchScore.totalScore = b.matchScore.totalScore
                   => a.position < b.position

\* C4 witness: a returned list of three entries in which two of equal
\* totalScore follow each other and a later candidate precedes an earlier
\* one.
C4_Witness ==
  \E c \in Callers :
    /\ Returned(c, "findMatches")
    /\ Len(call[c].limitedMatches) = 3
    /\ \E j, k \in 1..3 :
         /\ j < k
         /\ call[c].limitedMatches[j].matchScore.totalScore
              = call[c].limitedMatches[k].matchScore.totalScore
    /\ \E j, k \in 1..3 :
         /\ j < k
         /\ call[c].limitedMatches[j].position > call[c].limitedMatches[k].position

C6_ProviderFailureNeverPropagates ==
  \A c \in Callers :
    call[c].kind \in {"findMatches", "calculateMatchScore"} => call[c].pc # "failed"

\* C7: a call whose weight vector has a negative entry is rejected before
\* any scoring: it computes no similarity and returns no score or list.
C7_NegativeWeightRejected ==
  \A c \in Callers :
    ( /\ call[c].kind \in {"findMatches", "calculateMatchScore"}
      /\ HasNegativeWeight(call[c].weights) )
    => /\ call[c].similarities = 0
       /\ call[c].scoredTotals = <<>>
       /\ call[c].pc # "returned"

\* C8: the model load is started at most once however the first calls
\* interleave (the provider being able to load), and no
\* calculateSkillSimilarity has used the pipeline while it was not loaded.
C8_SingleFlightInitialization ==
  /\ providerMode # "noload" => pipelineLoads <= 1
  /\ \A c \in Callers :
       ( /\ call[c].lastSimilarity # <<>>
         /\ call[c].lastSimilarity[1].raised \in {"none", "mismatch"} )
       => embeddingPipeline = "loaded"

NonSelfCandidates(f) ==
  {j \in 1..Len(f.candidates) : f.candidates[j].id # f.user.id}

\* C9, as amended: two embedding vectors of different lengths do not abort
\* findMatches (it does not fail, and returns only once every candidate
\* other than the query profile is scored), and the pair's similarity is
\* that of the lexical fallback.
C9_MismatchFallsBack ==
  \A c \in Callers :
    /\ ( /\ call[c].lastSimilarity # <<>>
         /\ call[c].lastSimilarity[1].raised = "mismatch" )
       => call[c].lastSimilarity[1].score
            = FallbackSimilarity(call[c].lastSimilarity[1].skillA,
                                 call[c].lastSimilarity[1].skillB)
    /\ ( providerMode = "ragged" /\ call[c].kind = "findMatches" )
       => /\ call[c].pc # "failed"
          /\ call[c].pc = "returned"
               => {call[c].scoredTotals[j].position :
                     j \in 1..Len(call[c].scoredTotals)}
                  = NonSelfCandidates(call[c])

\* C9 witness: findMatches has returned two entries although the last
\* similarity of the call compared vectors of different lengths, and the
\* first entry's A-to-B score is the fallback's 1 for equal names.
C9_Witness ==
  \E c \in Callers :
    /\ Returned(c, "findMatches")
    /\ providerMode = "ragged"
    /\ call[c].candidates = <<Bob, Carol>>
    /\ Len(call[c].limitedMatches) = 2
    /\ call[c].limitedMatches[1].userB = Bob
    /\ call[c].limitedMatches[1].matchScore.semanticScoreAtoB = Unit
    /\ call[c].lastSimilarity[1].raised = "mismatch"

\* C9 as stated: the pair whose vectors differ in length contributes a
\* similarity of 0.
C9_MismatchScoresZero ==
  \A c \in Callers :
    ( /\ call[c].lastSimilarity # <<>>
      /\ call[c].lastSimilarity[1].raised = "mismatch" )
    => call[c].lastSimilarity[1].score = Zero

\* C10: every findMatches call eventually ends, with a result or an error.
C10_FindMatchesEventuallyEnds ==
  \A c \in Callers :
    [](call[c].kind = "findMatches" => <>(call[c].pc \in {"returned", "failed"}))

\* The language lists of a profile after trimming and lower-casing.
TrimmedLowerCased(user) ==
  {ToLowerCase(Trim(user.languages[i])) : i \in 1..Len(user.languages)}

SamePrimaryLanguage(userA, userB) ==
  /\ Len(userA.languages) > 0
  /\ Len(userB.languages) > 0
  /\ ToLowerCase(Trim(userA.languages[1])) = ToLowerCase(Trim(userB.languages[1]))

\* C13: two profiles whose trimmed, lower-cased language lists share nothing
\* get language score 0 and no common languages from
\* calculateLanguageSimilarity (so the primary-language bonus is not applied).
C13_NoCommonLanguageScoresZero ==
  \A c \in Callers :
    Returned(c, "calculateLanguageSimilarity") =>
      ( TrimmedLowerCased(call[c].args[1]) \cap TrimmedLowerCased(call[c].args[2]) = {}
        => /\ call[c].result[1].score = Zero
           /\ call[c].result[1].commonLanguages = {} )

\* C13 witness: calculateLanguageSimilarity has returned 0 for two profiles
\* that both declare languages, none of them shared.
C13_Witness ==
  \E c \in Callers :
    /\ Returned(c, "calculateLanguageSimilarity")
    /\ Len(call[c].args[1].languages) > 0
    /\ Len(call[c].args[2].languages) > 0
    /\ TrimmedLowerCased(call[c].args[1]) \cap TrimmedLowerCased(call[c].args[2]) = {}
    /\ call[c].result[1].score = Zero

\* min(1, x) and max(0, x), written out.
CapAtOne(x) == IF RLt(Unit, x) THEN Unit ELSE x
FloorAtZero(x) == IF RLt(x, Zero) THEN Zero ELSE x

\* C14: calculateTrustScore clamps both ratings into [0,1], averages them,
\* and returns average*0.7 if a clamped rating is below 0.3, min(1,
\* average*1.1) if both are above 0.8, the average otherwise; the two
\* conditions exclude each other, the score is in [0,1], two ratings of 0.1
\* give average*0.7 and two of 0.9 a score between the average and 1.
C14_TrustScoreBranches ==
  \A c \in Callers :
    Returned(c, "calculateTrustScore") =>
      LET a == FloorAtZero(CapAtOne(call[c].args[1].trustScore))
          b == FloorAtZero(CapAtOne(call[c].args[2].trustScore))
          average == RDivInt(RAdd(a, b), 2)
          low == RLt(a, Rat(3, 10)) \/ RLt(b, Rat(3, 10))
          high == RLt(Rat(8, 10), a) /\ RLt(Rat(8, 10), b)
          score == call[c].result[1].score
      IN  /\ ~(low /\ high)
          /\ score = (IF low THEN RMul(average, Rat(7, 10))
                      ELSE IF high THEN CapAtOne(RMul(average, Rat(11, 10)))
                      ELSE average)
          /\ InUnitInterval(score)
          /\ ( call[c].args[1].trustScore = Rat(1, 10)
               /\ call[c].args[2].trustScore = Rat(1, 10) )
             => score = Rat(7, 100)
          /\ ( call[c].args[1].trustScore = Rat(9, 10)
               /\ call[c].args[2].trustScore = Rat(9, 10) )
             => RLe(average, score) /\ RLe(score, Unit)

\* C14 witness: calculateTrustScore has returned 0.99 for two ratings of 0.9.
C14_Witness ==
  \E c \in Callers :
    /\ Returned(c, "calculateTrustScore")
    /\ call[c].args[1].trustScore = Rat(9, 10)
    /\ call[c].args[2].trustScore = Rat(9, 10)
    /\ call[c].result[1].score = Rat(99, 100)

\* C15: when the trimmed, lower-cased language sets share a language,
\* calculateLanguageSimilarity returns min(1, 0.5 + 0.5*|common|/|union|),
\* plus 0.2 capped at 1 when the first languages are equal; the score is
\* then in [0.5,1] and is 1 for two identical single-language profiles;
\* totalLanguages is the size of the union.
C15_LanguageScoreFormula ==
  \A c \in Callers :
    Returned(c, "calculateLanguageSimilarity") =>
      LET languagesA == TrimmedLowerCased(call[c].args[1])
          languagesB == TrimmedLowerCased(call[c].args[2])
          common == Cardinality(languagesA \cap languagesB)
          union == Cardinality(languagesA \cup languagesB)
          score == call[c].result[1].score
      IN  /\ call[c].result[1].totalLanguages = union
          /\ common > 0 =>
               LET base == CapAtOne(RAdd(Rat(1, 2), RMul(Rat(1, 2), Rat(common, union))))
               IN  /\ score = (IF SamePrimaryLanguage(call[c].args[1], call[c].args[2])
                               THEN CapAtOne(RAdd(base, Rat(1, 5)))
                               ELSE base)
                   /\ RLe(Rat(1, 2), score)
                   /\ RLe(score, Unit)
          /\ ( Len(call[c].args[1].languages) = 1
               /\ call[c].args[1].languages = call[c].args[2].languages )
             => score = Unit

\* C15 witness: calculateLanguageSimilarity has returned 0.75 for two
\* profiles that share one language of two and differ in their first one.
C15_Witness ==
  \E c \in Callers :
    /\ Returned(c, "calculateLanguageSimilarity")
    /\ Cardinality(TrimmedLowerCased(call[c].args[1])
                     \cap TrimmedLowerCased(call[c].args[2])) = 1
    /\ Cardinality(TrimmedLowerCased(call[c].args[1])
                     \cup TrimmedLowerCased(call[c].args[2])) = 2
    /\ ~SamePrimaryLanguage(call[c].args[1], call[c].args[2])
    /\ call[c].result[1].score = Rat(3, 4)

\* C17: the lexical fallback returns, on the lower-cased names, 1 if they
\* are equal, else 0.7 if one contains the other, else 0.5 * (common words /
\* max(words of A, words of B)); the result is in [0,1] and is the same for
\* (A,B) and (B,A).
C17_FallbackFormulaAndSymmetry ==
  \A c \in Callers :
    Returned(c, "fallbackSimilarity") =>
      LET nameA == ToLowerCase(call[c].args[1].name)
          nameB == ToLowerCase(call[c].args[2].name)
          wordsA == SplitWhitespace(nameA)
          wordsB == SplitWhitespace(nameB)
          common == Cardinality(Range(wordsA) \cap Range(wordsB))
          most == IF Len(wordsA) > Len(wordsB) THEN Len(wordsA) ELSE Len(wordsB)
          score == call[c].result[1]
      IN  /\ score = (IF nameA = nameB THEN Unit
                      ELSE IF Includes(nameA, nameB) \/ Includes(nameB, nameA)
                           THEN Rat(7, 10)
                           ELSE RMul(Rat(1, 2), Rat(common, most)))
          /\ InUnitInterval(score)
          /\ score = FallbackSimilarity(call[c].args[2], call[c].args[1])

\* The two profiles of a calculateMatchScore call.
ProfileA(f) == f.user
ProfileB(f) == f.candidates[1]

\* A direction from `source` to `target` has nothing to compare.
EmptyDirection(source, target) == Len(source.offers) = 0 \/ Len(target.wants) = 0

PairsOf(source, target) ==
  IF EmptyDirection(source, target) THEN 0 ELSE Len(source.offers) * Len(target.wants)

\* C11: a direction whose source has no offers or whose target has no
\* wants scores exactly 0 in calculateMatchScore (as semanticScoreAtoB and
\* as semanticScoreBtoA), and no calculateSkillSimilarity is made for it:
\* none is ever in progress for such a direction, and the call makes as
\* many as its other directions have pairs.
C11_EmptyDirectionScoresZero ==
  \A c \in Callers :
    call[c].kind = "calculateMatchScore" =>
      /\ call[c].pc \in {"sim", "sim_load"}
           => ~EmptyDirection(Source(call[c]), Target(call[c]))
      /\ call[c].pc = "returned" =>
           LET a == ProfileA(call[c])
               b == ProfileB(call[c])
               ms == call[c].matchScore[1]
           IN  /\ EmptyDirection(a, b) => ms.semanticScoreAtoB = Zero
               /\ EmptyDirection(b, a) => ms.semanticScoreBtoA = Zero
               /\ call[c].similarities = PairsOf(a, b) + PairsOf(b, a)

\* C11 witness: calculateMatchScore has returned for a pair whose A-to-B
\* direction is empty only because B wants nothing, with the other
\* direction scored above 0.
C11_Witness ==
  \E c \in Callers :
    /\ Returned(c, "calculateMatchScore")
    /\ Len(ProfileA(call[c]).offers) > 0
    /\ Len(ProfileB(call[c]).wants) = 0
    /\ call[c].matchScore[1].semanticScoreAtoB = Zero
    /\ RLt(Zero, call[c].matchScore[1].semanticScoreBtoA)
    /\ call[c].similarities = 1

\* C12: semanticScoreAtoB depends only on A's offers and B's wants: two
\* calculateMatchScore runs that agree on these return the same value,
\* whatever else differs; and semanticScoreBtoA of a run is the same
\* function of B's offers and A's wants, so it equals semanticScoreAtoB of
\* the run with the profiles exchanged.
C12_DirectionalScoreDependsOnOffersAndWants ==
  \A c1, c2 \in Callers :
    ( Returned(c1, "calculateMatchScore") /\ Returned(c2, "calculateMatchScore") ) =>
      LET a1 == ProfileA(call[c1])
          b1 == ProfileB(call[c1])
          a2 == ProfileA(call[c2])
          b2 == ProfileB(call[c2])
          m1 == call[c1].matchScore[1]
          m2 == call[c2].matchScore[1]
      IN  /\ ( a1.offers = a2.offers /\ b1.wants = b2.wants )
               => m1.semanticScoreAtoB = m2.semanticScoreAtoB
          /\ ( b1.offers = a2.offers /\ a1.wants = b2.wants )
               => m1.semanticScoreBtoA = m2.semanticScoreAtoB

\* C12 witness: two runs have returned the same semanticScoreAtoB above 0
\* for pairs that share A's offers and B's wants and differ in A's wants,
\* B's offers, the languages and the trust ratings.
C12_Witness ==
  \E c1, c2 \in Callers :
    /\ Returned(c1, "calculateMatchScore")
    /\ Returned(c2, "calculateMatchScore")
    /\ ProfileA(call[c1]).offers = ProfileA(call[c2]).offers
    /\ ProfileB(call[c1]).wants = ProfileB(call[c2]).wants
    /\ ProfileA(call[c1]).wants # ProfileA(call[c2]).wants
    /\ ProfileB(call[c1]).offers # ProfileB(call[c2]).offers
    /\ ProfileA(call[c1]).languages # ProfileA(call[c2]).languages
    /\ ProfileB(call[c1]).trustScore # ProfileB(call[c2]).trustScore
    /\ call[c1].matchScore[1].semanticScoreAtoB = call[c2].matchScore[1].semanticScoreAtoB
    /\ RLt(Zero, call[c1].matchScore[1].semanticScoreAtoB)

\* What calculateSkillSimilarity answers for a pair under the provider of
\* the run: the fallback when the model cannot be loaded.
SimilarityUnder(mode, skillA, skillB) ==
  IF mode = "noload" THEN FallbackSimilarity(skillA, skillB)
  ELSE CalculateSkillSimilarity(mode, skillA, skillB)

\* The highest similarity of an offer to any of the wants.
HighestSimilarity(mode, offer, wants) ==
  LET all == {SimilarityUnder(mode, offer, wants[j]) : j \in 1..Len(wants)}
  IN  CHOOSE best \in all : \A x \in all : RLe(x, best)

\* The level weights as the claim lists them.
LevelWeightOf(level) ==
  IF level = Beginner THEN Rat(1, 2)
  ELSE IF level = Intermediate THEN Rat(3, 4)
  ELSE IF level = Advanced THEN Rat(9, 10)
  ELSE IF level = Expert THEN Unit
  ELSE Rat(1, 2)

RECURSIVE TotalOf(_)
TotalOf(S) == IF S = <<>> THEN Zero ELSE RAdd(Head(S), TotalOf(Tail(S)))

MeanOf(S) == RDivInt(TotalOf(S), Len(S))

MaximumOf(S) == CHOOSE m \in Range(S) : \A x \in Range(S) : RLe(x, m)

\* C16: for a direction with an offer and a want, the directional score is
\* 0.7*mean(S) + 0.3*max(S), S holding for each source offer its highest
\* similarity to a target want times the offer's level weight; the score is
\* in [0,1] and not below mean(S).
C16_DirectionalScoreFormula ==
  \A c \in Callers :
    Returned(c, "calculateMatchScore") =>
      \A d \in {1, 2} :
        LET source == IF d = 1 THEN ProfileA(call[c]) ELSE ProfileB(call[c])
            target == IF d = 1 THEN ProfileB(call[c]) ELSE ProfileA(call[c])
            score == IF d = 1 THEN call[c].matchScore[1].semanticScoreAtoB
                     ELSE call[c].matchScore[1].semanticScoreBtoA
            S == call[c].directionScores[d]
        IN  ~EmptyDirection(source, target) =>
              /\ S = [k \in 1..Len(source.offers) |->
                        RMul(HighestSimilarity(providerMode, source.offers[k], target.wants),
                             LevelWeightOf(source.offers[k].level))]
              /\ score = RAdd(RMul(Rat(7, 10), MeanOf(S)), RMul(Rat(3, 10), MaximumOf(S)))
              /\ InUnitInterval(score)
              /\ RLe(MeanOf(S), score)

\* C16 witness: calculateMatchScore has returned a directional score above
\* the mean of the two weighted best similarities of a two-offer source.
C16_Witness ==
  \E c \in Callers :
    /\ Returned(c, "calculateMatchScore")
    /\ Len(ProfileA(call[c]).offers) = 2
    /\ Len(call[c].directionScores[1]) = 2
    /\ RLt(MeanOf(call[c].directionScores[1]), call[c].matchScore[1].semanticScoreAtoB)
    /\ RLt(call[c].matchScore[1].semanticScoreAtoB, MaximumOf(call[c].directionScores[1]))

\* C18: with w1 = w2, calculateMatchScore(A,B,w) and calculateMatchScore(B,A,w)
\* return the same totalScore: the language and trust scores are the same
\* and the two directional scores change places.
C18_SymmetricWhenW1EqualsW2 ==
  \A c1, c2 \in Callers :
    ( /\ Returned(c1, "calculateMatchScore")
      /\ Returned(c2, "calculateMatchScore")
      /\ ProfileA(call[c1]) = ProfileB(call[c2])
      /\ ProfileB(call[c1]) = ProfileA(call[c2])
      /\ call[c1].weights = call[c2].weights
      /\ call[c1].weights.w1 = call[c1].weights.w2 ) =>
      LET m1 == call[c1].matchScore[1]
          m2 == call[c2].matchScore[1]
      IN  /\ m1.totalScore = m2.totalScore
          /\ m1.languageScore = m2.languageScore
          /\ m1.trustScore = m2.trustScore
          /\ m1.semanticScoreAtoB = m2.semanticScoreBtoA
          /\ m1.semanticScoreBtoA = m2.semanticScoreAtoB

\* C18 witness: the two orders of a pair have been scored under weights
\* with w1 = w2, the two directional scores differ, and the totals agree.
C18_Witness ==
  \E c1, c2 \in Callers :
    /\ Returned(c1, "calculateMatchScore")
    /\ Returned(c2, "calculateMatchScore")
    /\ ProfileA(call[c1]) = ProfileB(call[c2])
    /\ ProfileB(call[c1]) = ProfileA(call[c2])
    /\ ProfileA(call[c1]) # ProfileB(call[c1])
    /\ call[c1].weights = call[c2].weights
    /\ call[c1].weights.w1 = call[c1].weights.w2
    /\ call[c1].matchScore[1].semanticScoreAtoB # call[c1].matchScore[1].semanticScoreBtoA
    /\ call[c1].matchScore[1].totalScore = call[c2].matchScore[1].totalScore

====
